---- MODULE Spec2Model ----
(***************************************************************************)
(* A model of the p-adic arithmetic shown in                               *)
(* src/sage/rings/padics/tutorial.py: the three bounded rings (fixed       *)
(* modulus, capped absolute, capped relative) with + - * // /, and the     *)
(* lazy ring with on-demand digits, equality and self-referent numbers.    *)
(***************************************************************************)
EXTENDS Integers, Sequences, FiniteSets, TLC

VARIABLES
  session,  \* which part of the tutorial runs: "bounded", "lazy" or "selfref"
  ring,     \* bounded: the ring R = Zp(p, prec, type)
  a, b,     \* bounded: the operands
  op, res,  \* bounded: the operation applied and what it returned
  kexp,     \* lazy: the exponent K of s = b + p^K (-1: s = b + 0)
  memo,     \* lazy: per element, the digits materialized so far
  gen,      \* lazy: per element, the state of its digit generator
  calls,    \* lazy: per element, how often its generator produced a digit
  last,     \* lazy: the last operation and what it returned
  seen,     \* lazy: one earlier answer of at_precision_absolute
  state,    \* selfref: "Absent", "Unbound" or "Bound"
  coef,     \* selfref: the c of the bound definition x = 1 + c*x^2
  pc,       \* selfref: "idle", or "resolving" while a request runs
  target,   \* selfref: the precision the running request asked for
  iters,    \* selfref: iterations spent on the digit being resolved
  read,     \* selfref: per resolved digit, the highest own index it read
  failed    \* selfref: per digit index, how often resolving it raised

bvars == <<ring, a, b, op, res>>

lvars == <<kexp, memo, gen, calls, last, seen>>

svars == <<state, coef, pc, target, iters, read, failed>>

vars == <<session, bvars, lvars, svars>>

-----------------------------------------------------------------------------
(* Bounds of the exploration and constants of the tutorial.                *)

\* precision cap of the exhaustively explored rings
MaxCap == 2
\* largest valuation of an initial capped-relative operand
MaxVal == 1
\* Zp(5, prec = 10, ...)
TutorialP == 5
TutorialPrec == 10

ExplorePrimes == {2, 3}

Kinds == {"fixed-mod", "capped-abs", "capped-rel"}

-----------------------------------------------------------------------------
(* Integer helpers.                                                        *)

Min(x, y) == IF x <= y THEN x ELSE y

RECURSIVE Pow(_, _)
Pow(p, k) == IF k <= 0 THEN 1 ELSE p * Pow(p, k - 1)

\* x * y mod m without leaving 32 bits (0 <= x, y < m, 2m < 2^31)
RECURSIVE MulMod(_, _, _)
MulMod(x, y, m) ==
  IF y = 0 THEN 0
  ELSE LET h == MulMod((2 * x) % m, y \div 2, m)
       IN  (h + (y % 2) * x) % m

\* the exponent of p in x (x > 0)
RECURSIVE Val(_, _)
Val(p, x) == IF x % p # 0 THEN 0 ELSE 1 + Val(p, x \div p)

\* the inverse of the unit u modulo p, found by search over [1, p)
InvDigit(p, u) == CHOOSE d \in 1..(p - 1) : (d * (u % p)) % p = 1

\* the inverse of the unit u modulo p^k: Newton lifting x <- x (2 - u x),
\* which doubles the number of correct digits
RECURSIVE InvMod(_, _, _)
InvMod(p, u, k) ==
  IF k <= 1 THEN InvDigit(p, u)
  ELSE LET h == (k + 1) \div 2
           m == Pow(p, k)
           x == InvMod(p, u, h)
           t == (2 + m - MulMod(u % m, x, m)) % m
       IN  MulMod(x, t, m)

-----------------------------------------------------------------------------
(* Bounded elements.  An element is p^v * u + O(p^(v+r)): v its valuation, *)
(* u its unit part modulo p^r, r its relative precision.  An element that  *)
(* is zero to its precision is O(p^v): u = 0, r = 0.                       *)

valuation(e) == e.v

precision_relative(e) == e.r

precision_absolute(e) == e.v + e.r

IsZero(e) == e.r = 0

IsErr(x) == "err" \in DOMAIN x

Err(msg) == [err |-> msg]

NonUnit == "cannot invert non-unit"

DivByZero == "cannot divide by zero"

\* the element x + O(p^prec), for an integer 0 <= x
Mk(p, x, prec) ==
  LET y == x % Pow(p, prec)
  IN  IF y = 0 THEN [v |-> prec, u |-> 0, r |-> 0]
      ELSE LET k == Val(p, y)
           IN  [v |-> k, u |-> y \div Pow(p, k), r |-> prec - k]

\* e with its valuation moved by k
Shift(e, k) == [e EXCEPT !.v = e.v + k]

\* e cut down to absolute precision at most prec
Trunc(p, e, prec) ==
  IF e.v + e.r <= prec THEN e
  ELSE IF e.v >= prec THEN [v |-> prec, u |-> 0, r |-> 0]
  ELSE [v |-> e.v, u |-> e.u % Pow(p, prec - e.v), r |-> prec - e.v]

\* R(x): the integer x as an element of the ring R
FromInt(R, x) ==
  IF R.kind = "capped-rel"
  THEN LET k == Val(R.p, x)
       IN  [v |-> k, u |-> (x \div Pow(R.p, k)) % Pow(R.p, R.cap), r |-> R.cap]
  ELSE Mk(R.p, x, R.cap)

\* the units modulo p^r
Units(p, r) == {u \in 1..(Pow(p, r) - 1) : u % p # 0}

\* every element of the ring R with valuation at most MaxVal (capped-rel)
Elems(R) ==
  CASE R.kind = "fixed-mod" ->
         {Mk(R.p, x, R.cap) : x \in 0..(Pow(R.p, R.cap) - 1)}
    [] R.kind = "capped-abs" ->
         UNION {{Mk(R.p, x, n) : x \in 0..(Pow(R.p, n) - 1)} : n \in 0..R.cap}
    [] R.kind = "capped-rel" ->
         UNION {{[v |-> k, u |-> 0, r |-> 0]} \cup
                UNION {{[v |-> k, u |-> w, r |-> n] : w \in Units(R.p, n)}
                         : n \in 1..R.cap}
                  : k \in 0..MaxVal}

-----------------------------------------------------------------------------
(* Arithmetic.                                                             *)

\* the precision of a sum is not tracked: the cap of the ring is claimed
AbsPrecOfSum_untracked(R, e1, e2) == R.cap

\* the absolute precision of a sum: the smaller of the operands' precisions
AbsPrecOfSum(R, e1, e2) ==
  IF R.kind = "fixed-mod" THEN R.cap
  ELSE Min(precision_absolute(e1), precision_absolute(e2))

\* u * p^s modulo p^k
Aligned(p, u, s, k) ==
  IF s >= k THEN 0 ELSE MulMod(u % Pow(p, k), Pow(p, s), Pow(p, k))

add(R, e1, e2) ==
  LET m    == AbsPrecOfSum(R, e1, e2)
      vmin == Min(e1.v, e2.v)
      k    == m - vmin
      s    == (Aligned(R.p, e1.u, e1.v - vmin, k)
               + Aligned(R.p, e2.u, e2.v - vmin, k)) % Pow(R.p, k)
  IN  Shift(Mk(R.p, s, k), vmin)

neg(R, e) == IF e.r = 0 THEN e ELSE [e EXCEPT !.u = Pow(R.p, e.r) - e.u]

sub(R, e1, e2) == add(R, e1, neg(R, e2))

\* the relative precision of a product taken from the first operand alone
RelPrecOfProduct_first(e1, e2) == e1.r

\* the relative precision of a product: the smaller of the operands'
RelPrecOfProduct(e1, e2) == Min(e1.r, e2.r)

mul(R, e1, e2) ==
  LET r == RelPrecOfProduct(e1, e2)
      m == Pow(R.p, r)
      w == [v |-> e1.v + e2.v,
            u |-> IF r = 0 THEN 0 ELSE MulMod(e1.u % m, e2.u % m, m),
            r |-> r]
  IN  IF R.kind = "capped-rel" THEN w ELSE Trunc(R.p, w, R.cap)

\* a // p that drops the digit and keeps claiming the operand's precision
floordiv_by_p_keepprec(R, e) ==
  IF e.r = 0 THEN e
  ELSE IF e.v >= 1 THEN [v |-> e.v - 1, u |-> e.u, r |-> e.r + 1]
  ELSE Mk(R.p, e.u \div R.p, e.r)

\* a // p: drop the lowest digit
floordiv_by_p(R, e) ==
  IF R.kind = "fixed-mod"
  THEN (IF e.r = 0 THEN e
        ELSE IF e.v >= 1 THEN [v |-> e.v - 1, u |-> e.u, r |-> e.r + 1]
        ELSE Mk(R.p, e.u \div R.p, R.cap))
  ELSE (IF precision_absolute(e) = 0 THEN e
        ELSE IF e.v >= 1 THEN Shift(e, -1)
        ELSE Mk(R.p, e.u \div R.p, e.r - 1))

RECURSIVE ShiftRight(_, _, _)
ShiftRight(R, e, k) ==
  IF k <= 0 THEN e ELSE ShiftRight(R, floordiv_by_p(R, e), k - 1)

\* the inverse of the unit part of e, as a unit of the same precision
InvUnit(R, e) == [v |-> 0, u |-> InvMod(R.p, e.u, e.r), r |-> e.r]

\* a // b: shift by the valuation of b, divide by its unit part
floordiv(R, e1, e2) ==
  IF e2.r = 0 THEN Err(DivByZero)
  ELSE mul(R, ShiftRight(R, e1, e2.v), InvUnit(R, e2))

\* a / b that falls back to a // b when b is not a unit
div_fixed_fallback(R, e1, e2) ==
  IF e2.r = 0 THEN Err(NonUnit) ELSE floordiv(R, e1, e2)

\* a / b in the fixed modulus ring: b must be a unit
div_fixed(R, e1, e2) ==
  IF e2.r = 0 \/ e2.v # 0 THEN Err(NonUnit)
  ELSE mul(R, e1, InvUnit(R, e2))

\* a / b in the capped rings: an element of the capped relative field
div_capped(R, e1, e2) ==
  IF e2.r = 0 THEN Err(DivByZero)
  ELSE LET r == Min(e1.r, e2.r)
           m == Pow(R.p, r)
       IN  [v |-> e1.v - e2.v,
            u |-> IF r = 0 THEN 0
                  ELSE MulMod(e1.u % m, InvMod(R.p, e2.u, r), m),
            r |-> r]

div(R, e1, e2) ==
  IF R.kind = "fixed-mod" THEN div_fixed(R, e1, e2) ELSE div_capped(R, e1, e2)

-----------------------------------------------------------------------------
(* The rings and operands of the tutorial.                                 *)

ExploreRings == {[p |-> q, cap |-> MaxCap, kind |-> k] : q \in ExplorePrimes, k \in Kinds}

TutorialRings == {[p |-> TutorialP, cap |-> TutorialPrec, kind |-> k] : k \in Kinds}

\* the pairs of operands the tutorial computes with in the ring R
TutorialOperands(R) ==
  LET a0 == FromInt(R, 375)
      b0 == IF R.kind = "capped-rel" THEN [v |-> 1, u |-> 21, r |-> 10]
            ELSE FromInt(R, 105)
      c0 == floordiv_by_p(R, a0)
  IN  {<<a0, b0>>, <<a0, FromInt(R, 5)>>, <<a0, FromInt(R, 2)>>,
       <<c0, b0>>, <<c0, FromInt(R, 1)>>, <<FromInt(R, 1), add(R, c0, b0)>>}

NoRes == [none |-> TRUE]

Nothing == <<>>

\* the lazy and self-referent parts are not in use
LazyUnused ==
  /\ kexp = -1 /\ memo = Nothing /\ gen = Nothing /\ calls = Nothing
  /\ last = NoRes /\ seen = NoRes

SelfRefUnused ==
  /\ state = "Absent" /\ coef = 0 /\ pc = "idle" /\ target = 0 /\ iters = 0
  /\ read = Nothing /\ failed = Nothing

BInit ==
  /\ session = "bounded"
  /\ LazyUnused
  /\ SelfRefUnused
  /\ op = "none"
  /\ res = NoRes
  /\ \/ /\ ring \in ExploreRings
        /\ a \in Elems(ring)
        /\ b \in Elems(ring)
     \/ /\ ring \in TutorialRings
        /\ \E pr \in TutorialOperands(ring) : a = pr[1] /\ b = pr[2]

Apply(name, value) ==
  /\ session = "bounded"
  /\ op = "none"
  /\ op' = name
  /\ res' = value
  /\ UNCHANGED <<session, ring, a, b, lvars, svars>>

Add == Apply("add", add(ring, a, b))

Sub == Apply("sub", sub(ring, a, b))

Mul == Apply("mul", mul(ring, a, b))

FloorDivP == Apply("floordiv_by_p", floordiv_by_p(ring, a))

\* (a * p) // p
MulPFloorDivP == Apply("mulp_floordiv_by_p",
                       floordiv_by_p(ring, mul(ring, a, FromInt(ring, ring.p))))

FloorDiv == Apply("floordiv", floordiv(ring, a, b))

Div == Apply("div", div(ring, a, b))

BNext == Add \/ Sub \/ Mul \/ FloorDivP \/ MulPFloorDivP \/ FloorDiv \/ Div

BSpec == BInit /\ [][BNext]_vars

-----------------------------------------------------------------------------
(* The lazy ring R = ZpL(5): elements whose digits are produced on demand. *)

\* ZpL(5, ...)
LazyP == 5
\* R.default_prec()
DefaultPrec == 20
\* a.at_precision_absolute(30)
TutorialReq == 30
\* b + 5^50
TutorialK == 50
\* largest of the small precisions a caller asks for
MaxReq == 2
\* largest of the small exponents K of s = b + p^K
MaxK == 1

\* a = R(17/42), b = R(42/17), s = b + p^K: a session works with a and b, or
\* with b and s
LazySessions == {{"a", "b"}, {"b", "s"}}

Rational(x) == IF x = "a" THEN [num |-> 17, den |-> 42] ELSE [num |-> 42, den |-> 17]

ReqPrecs == (1..MaxReq) \cup {DefaultPrec, TutorialReq}

KExps == (0..MaxK) \cup {DefaultPrec - 1, DefaultPrec, TutorialK, -1}

\* the next digit of num/den and the numerator left: num/den = d + p*(num'/den)
RatStep(num, den) ==
  LET d == ((num % LazyP) * InvDigit(LazyP, den)) % LazyP
  IN  [digit |-> d, num |-> (num - d * den) \div LazyP]

\* the digit of index i of b + p^K given the digit of b and the carry
SumStep(bdigit, i, K, carry) ==
  LET t == bdigit + (IF i = K THEN 1 ELSE 0) + carry
  IN  [digit |-> t % LazyP, carry |-> t \div LazyP]

\* the lazy state: the memos, the generator states and the generator calls
LazyState == [memo |-> memo, gen |-> gen, calls |-> calls]

\* the generator of a rational run until n digits are there
RECURSIVE RatExtend(_, _, _, _)
RatExtend(digits, num, den, n) ==
  IF Len(digits) >= n THEN [digits |-> digits, gen |-> num]
  ELSE LET g == RatStep(num, den)
       IN  RatExtend(Append(digits, g.digit), g.num, den, n)

\* the generator of b + p^K run until n digits are there
RECURSIVE SumExtend(_, _, _, _, _)
SumExtend(digits, carry, bdigits, K, n) ==
  IF Len(digits) >= n THEN [digits |-> digits, gen |-> carry]
  ELSE LET g == SumStep(bdigits[Len(digits) + 1], Len(digits), K, carry)
       IN  SumExtend(Append(digits, g.digit), g.carry, bdigits, K, n)

\* the state st with the n digits and the generator state g of x stored
Stored(st, x, g) ==
  [memo  |-> [st.memo EXCEPT ![x] = g.digits],
   gen   |-> [st.gen EXCEPT ![x] = g.gen],
   calls |-> [st.calls EXCEPT ![x] = @ + Len(g.digits) - Len(st.memo[x])]]

\* ensure_materialized: the digits beyond the frontier are generated and
\* appended; the digits of s = b + p^K ask for those of b first
RECURSIVE ensure_materialized(_, _, _, _)
ensure_materialized(st, x, n, K) ==
  IF Len(st.memo[x]) >= n THEN st
  ELSE IF x = "s"
  THEN LET st1 == ensure_materialized(st, "b", n, K)
       IN  Stored(st1, x, SumExtend(st1.memo[x], st1.gen[x], st1.memo["b"], K, n))
  ELSE Stored(st, x, RatExtend(st.memo[x], st.gen[x], Rational(x).den, n))

\* x@n that cuts the memo of x back to the n digits asked for
at_precision_absolute_truncating(st, x, n, K) ==
  LET st1 == ensure_materialized(st, x, n, K)
  IN  [st |-> [st1 EXCEPT !.memo[x] = SubSeq(@, 1, n)],
       digits |-> SubSeq(st1.memo[x], 1, n)]

\* x.at_precision_absolute(n), x@n: the lazy state after it and the digits
\* returned, lowest first
at_precision_absolute(st, x, n, K) ==
  LET st1 == ensure_materialized(st, x, n, K)
  IN  [st |-> st1, digits |-> SubSeq(st1.memo[x], 1, n)]

\* the digits of x and y are compared one index after the other below n; the
\* first difference ends the comparison
RECURSIVE FindDifference(_, _, _, _, _, _)
FindDifference(st, x, y, i, n, K) ==
  IF i >= n THEN [st |-> st, found |-> FALSE]
  ELSE LET st1 == ensure_materialized(ensure_materialized(st, x, i + 1, K), y, i + 1, K)
       IN  IF st1.memo[x][i + 1] # st1.memo[y][i + 1]
           THEN [st |-> st1, found |-> TRUE]
           ELSE FindDifference(st1, x, y, i + 1, n, K)

PrecisionError == "unable to decide equality; try to bound precision"

\* a comparison that takes "no difference found" for equality
compare_optimistic(st, x, y, explicit, n, K) ==
  LET f == FindDifference(st, x, y, 0, n, K)
  IN  [st |-> f.st, result |-> IF f.found THEN "NotEqual" ELSE "Equal"]

\* x == y (explicit = FALSE, n the default precision) and x@n == y
compare(st, x, y, explicit, n, K) ==
  LET f == FindDifference(st, x, y, 0, n, K)
  IN  [st |-> f.st,
       result |-> IF f.found THEN "NotEqual"
                  ELSE IF explicit THEN "Equal"
                  ELSE PrecisionError]

LInit ==
  /\ session = "lazy"
  /\ ring = NoRes /\ a = NoRes /\ b = NoRes /\ op = "none" /\ res = NoRes
  /\ SelfRefUnused
  /\ \E nodes \in LazySessions :
       /\ kexp \in IF "s" \in nodes THEN KExps ELSE {-1}
       /\ memo = [x \in nodes |-> <<>>]
       /\ gen = [x \in nodes |-> IF x = "s" THEN 0 ELSE Rational(x).num]
       /\ calls = [x \in nodes |-> 0]
  /\ last = NoRes
  /\ seen = NoRes

SetLazy(st) ==
  /\ memo' = st.memo
  /\ gen' = st.gen
  /\ calls' = st.calls

\* x@n; the answer may be kept to be compared with a later one
AtPrecisionAbsolute ==
  /\ session = "lazy"
  /\ \E x \in DOMAIN memo, n \in ReqPrecs :
       LET r == at_precision_absolute(LazyState, x, n, kexp)
           answer == [op |-> "at_precision_absolute", x |-> x, n |-> n,
                      digits |-> r.digits]
       IN  /\ SetLazy(r.st)
           /\ last' = answer
           /\ seen' \in {seen, answer}
  /\ UNCHANGED <<session, bvars, kexp, svars>>

\* x == y and x@n == y
Compare ==
  /\ session = "lazy"
  /\ \E x \in DOMAIN memo, y \in DOMAIN memo, explicit \in BOOLEAN, n \in ReqPrecs :
       /\ x # y
       /\ explicit \/ n = DefaultPrec
       /\ LET r == compare(LazyState, x, y, explicit, n, kexp)
          IN  /\ SetLazy(r.st)
              /\ last' = [op |-> "compare", x |-> x, y |-> y, explicit |-> explicit,
                          n |-> n, result |-> r.result]
  /\ UNCHANGED <<session, bvars, kexp, seen, svars>>

LNext == AtPrecisionAbsolute \/ Compare

LSpec == LInit /\ [][LNext]_vars

-----------------------------------------------------------------------------
(* Self-referent numbers: x = R.selfref(); x.set(1 + c*x^2); x@n.          *)

\* largest coefficient c a definition x = 1 + c*x^2 is set with
MaxCoef == 5
\* iterations the resolver spends on one digit before it gives up
IterBound == 2

SelfRefPrimes == {2, 3, 5}

CircularDefinition == "definition looks circular"

AlreadyBound == "AlreadyBound"

\* the digit of index j of ds, 0 beyond the digits there
DigitOf(ds, j) == IF j < Len(ds) THEN ds[j + 1] ELSE 0

\* the coefficient of p^k in the square of ds, before carrying
RECURSIVE Conv(_, _, _)
Conv(ds, k, j) ==
  IF j > k THEN 0 ELSE DigitOf(ds, j) * DigitOf(ds, k - j) + Conv(ds, k, j + 1)

\* the digit of index i of 1 + c*X^2 computed without the carries
DigitOfDefinition_nocarry(p, c, ds, k, carry, i) ==
  (c * Conv(ds, i, 0) + (IF i = 0 THEN 1 ELSE 0)) % p

\* the digit of index i of 1 + c*X^2, X the number with the digits ds: the
\* coefficients are summed up from index k with the carry
RECURSIVE DigitOfDefinition(_, _, _, _, _, _)
DigitOfDefinition(p, c, ds, k, carry, i) ==
  LET t == c * Conv(ds, k, 0) + (IF k = 0 THEN 1 ELSE 0) + carry
  IN  IF k = i THEN t % p ELSE DigitOfDefinition(p, c, ds, k + 1, t \div p, i)

\* every definition taken to be guarded by a factor p
Needs_guarded(p, c, i) == i - 1

\* the highest index of a digit of x that the digit of index i of 1 + c*x^2
\* involves: i less the exponent of p in c (-1: none)
Needs(p, c, i) == i - Val(p, c)

\* the resolver has spent its iterations on the digit
Exhausted(n) == n >= IterBound

\* a set that binds whatever the state of the node
bind_once_rebinding(st, c0, c) == [state |-> "Bound", coef |-> c, result |-> "ok"]

\* x.set(1 + c*x^2) on a node in state st with coefficient c0
bind_once(st, c0, c) ==
  IF st = "Unbound"
  THEN [state |-> "Bound", coef |-> c, result |-> "ok"]
  ELSE [state |-> st, coef |-> c0, result |-> AlreadyBound]

\* a failure that drops the definition and the digits of the node
raise_circular_unbinding(st, c0, digits) ==
  [state |-> "Unbound", coef |-> 0, digits |-> <<>>]

\* what resolving the digit of index i raising CircularDefinition leaves
raise_circular(st, c0, digits) == [state |-> st, coef |-> c0, digits |-> digits]

SReqPrecs == (1..MaxReq) \cup {DefaultPrec}

SInit ==
  /\ session = "selfref"
  /\ ring \in {[p |-> q, cap |-> 0, kind |-> "lazy"] : q \in SelfRefPrimes}
  /\ a = NoRes /\ b = NoRes /\ op = "none" /\ res = NoRes
  /\ kexp = -1 /\ gen = Nothing /\ seen = NoRes
  /\ memo = [x \in {"x"} |-> <<>>]
  /\ calls = [x \in {"x"} |-> 0]
  /\ last = NoRes
  /\ state = "Absent" /\ coef = 0 /\ pc = "idle" /\ target = 0 /\ iters = 0
  /\ read = <<>> /\ failed = Nothing

SFrame == UNCHANGED <<session, bvars, kexp, gen, seen>>

\* x = R.selfref()
SelfRef ==
  /\ session = "selfref" /\ pc = "idle"
  /\ state = "Absent"
  /\ state' = "Unbound"
  /\ last' = [op |-> "selfref"]
  /\ UNCHANGED <<coef, pc, target, iters, read, failed, memo, calls>>
  /\ SFrame

\* x.set(1 + c*x^2)
Set ==
  /\ session = "selfref" /\ pc = "idle"
  /\ state # "Absent"
  /\ \E c \in 1..MaxCoef :
       LET r == bind_once(state, coef, c)
       IN  /\ state' = r.state
           /\ coef' = r.coef
           /\ last' = [op |-> "set", c |-> c, result |-> r.result]
  /\ UNCHANGED <<pc, target, iters, read, failed, memo, calls>>
  /\ SFrame

Answer(n, digits) ==
  [op |-> "at_precision_absolute", x |-> "x", n |-> n, digits |-> digits]

\* x@n: digits the memo holds are returned at once, others are resolved
Request ==
  /\ session = "selfref" /\ pc = "idle"
  /\ state = "Bound"
  /\ \E n \in SReqPrecs :
       IF Len(memo["x"]) >= n
       THEN /\ last' = Answer(n, SubSeq(memo["x"], 1, n))
            /\ UNCHANGED <<pc, target, iters>>
       ELSE /\ pc' = "resolving"
            /\ target' = n
            /\ iters' = 0
            /\ last' = [op |-> "request", n |-> n]
  /\ UNCHANGED <<state, coef, read, failed, memo, calls>>
  /\ SFrame

\* one step of the resolver on the digit at the frontier
ResolveStep ==
  /\ session = "selfref" /\ pc = "resolving"
  /\ LET i     == Len(memo["x"])
         needs == Needs(ring.p, coef, i)
     IN  IF needs < i
         THEN LET digits == Append(memo["x"],
                                   DigitOfDefinition(ring.p, coef, memo["x"], 0, 0, i))
              IN  /\ memo' = [memo EXCEPT !["x"] = digits]
                  /\ calls' = [calls EXCEPT !["x"] = @ + 1]
                  /\ read' = Append(read, needs)
                  /\ iters' = 0
                  /\ IF Len(digits) >= target
                     THEN /\ pc' = "idle"
                          /\ last' = Answer(target, SubSeq(digits, 1, target))
                     ELSE UNCHANGED <<pc, last>>
                  /\ UNCHANGED <<state, coef, target, failed>>
         ELSE IF ~Exhausted(iters)
         THEN /\ iters' = iters + 1
              /\ UNCHANGED <<state, coef, pc, target, read, failed, memo, calls, last>>
         ELSE LET r == raise_circular(state, coef, memo["x"])
              IN  /\ state' = r.state
                  /\ coef' = r.coef
                  /\ memo' = [memo EXCEPT !["x"] = r.digits]
                  /\ pc' = "idle"
                  /\ iters' = 0
                  /\ failed' = [j \in DOMAIN failed \cup {i} |->
                                  IF j = i
                                  THEN (IF j \in DOMAIN failed THEN 2 ELSE 1)
                                  ELSE failed[j]]
                  /\ last' = [op |-> "at_precision_absolute", x |-> "x",
                              n |-> target, error |-> CircularDefinition]
                  /\ UNCHANGED <<target, read, calls>>
  /\ SFrame

\* the caller abandons the request between two digits
Abandon ==
  /\ session = "selfref" /\ pc = "resolving"
  /\ pc' = "idle"
  /\ iters' = 0
  /\ last' = [op |-> "abandoned", n |-> target]
  /\ UNCHANGED <<state, coef, target, read, failed, memo, calls>>
  /\ SFrame

SNext == SelfRef \/ Set \/ Request \/ ResolveStep \/ Abandon

SSpec == SInit /\ [][SNext]_vars

\* a request runs to its end unless the caller abandons it
SFairSpec == SSpec /\ WF_vars(ResolveStep)

-----------------------------------------------------------------------------
(* The claims about the bounded rings.                                     *)

\* valuation 0 with a non-zero leading digit
IsUnit(e) == e.r > 0 /\ e.v = 0

Capped == ring.kind \in {"capped-abs", "capped-rel"}

\* C6 as stated: in every ring a / b with b not a unit fails and returns no
\* element, with "cannot invert non-unit" when b is not zero
C6_Original ==
  (session = "bounded" /\ op = "div" /\ ~IsUnit(b)) =>
     /\ IsErr(res)
     /\ ~IsZero(b) => res = Err(NonUnit)

\* C6 amended: in the fixed modulus ring a / b with b not a unit fails with
\* "cannot invert non-unit", returns no element and in particular not
\* a // b, and a / b with b a unit returns an element; in the capped rings
\* a / b with b non-zero, unit or not, returns an element of the capped
\* relative field with valuation val(a) - val(b) and relative precision
\* min(r_a, r_b).
C6_DivisionByNonUnit ==
  (session = "bounded" /\ op = "div") =>
     /\ (ring.kind = "fixed-mod" /\ ~IsUnit(b)) =>
           /\ res = Err(NonUnit)
           /\ res # floordiv(ring, a, b)
     /\ (ring.kind = "fixed-mod" /\ IsUnit(b)) => ~IsErr(res)
     /\ (Capped /\ ~IsZero(b)) =>
           /\ ~IsErr(res)
           /\ valuation(res) = valuation(a) - valuation(b)
           /\ precision_relative(res) = Min(precision_relative(a), precision_relative(b))

\* fixed-mod: a / b with a = 375, b = 105 raised
C6_Witness ==
  /\ session = "bounded" /\ op = "div"
  /\ ring = [p |-> TutorialP, cap |-> TutorialPrec, kind |-> "fixed-mod"]
  /\ a = FromInt(ring, 375) /\ b = FromInt(ring, 105)
  /\ res = Err(NonUnit)

\* (a * p) // p gives a back, up to the digit the cap of the ring cuts off
RoundTrip(R, e, out) ==
  CASE R.kind = "capped-rel" -> out = e
    [] R.kind = "capped-abs" -> out = Trunc(R.p, e, R.cap - 1)
    [] R.kind = "fixed-mod"  -> Trunc(R.p, out, R.cap - 1) = Trunc(R.p, e, R.cap - 1)

\* C7 as stated: (a * p) // p is a up to the cap, and in the capped rings
\* a // p has absolute precision one less than a, for every a
C7_Original ==
  session = "bounded" =>
     /\ op = "mulp_floordiv_by_p" => RoundTrip(ring, a, res)
     /\ (op = "floordiv_by_p" /\ Capped) =>
           precision_absolute(res) = precision_absolute(a) - 1

\* C7 amended: (a * p) // p is a up to the cap, and in the capped rings
\* a // p has absolute precision one less than a for every a of absolute
\* precision at least 1.
C7_FloorDivRoundTrip ==
  session = "bounded" =>
     /\ op = "mulp_floordiv_by_p" => RoundTrip(ring, a, res)
     /\ (op = "floordiv_by_p" /\ Capped /\ precision_absolute(a) >= 1) =>
           precision_absolute(res) = precision_absolute(a) - 1

\* capped-abs: a = 375 + O(5^10), a // 5 = 3*5^2 + O(5^9)
C7_Witness ==
  /\ session = "bounded" /\ op = "floordiv_by_p"
  /\ ring = [p |-> TutorialP, cap |-> TutorialPrec, kind |-> "capped-abs"]
  /\ a = FromInt(ring, 375) /\ precision_absolute(a) = 10
  /\ res = [v |-> 2, u |-> 3, r |-> 7]

\* a and b are non-zero, of equal valuation and equal leading digit, and a - b
\* was computed in the capped absolute ring
Cancelling ==
  /\ session = "bounded" /\ op = "sub" /\ ring.kind = "capped-abs"
  /\ ~IsZero(a) /\ ~IsZero(b)
  /\ valuation(a) = valuation(b)
  /\ a.u % ring.p = b.u % ring.p

\* C8 as stated: the absolute precision of a - b is below that of a and of b
C8_Original ==
  Cancelling =>
     precision_absolute(res) < Min(precision_absolute(a), precision_absolute(b))

\* C8 amended: the valuation of a - b is above that of a and b, its absolute
\* precision is min(precision_absolute(a), precision_absolute(b)), and it is
\* its relative precision that is below those of a and of b.
C8_Cancellation ==
  Cancelling =>
     /\ valuation(res) > valuation(a)
     /\ precision_absolute(res) = Min(precision_absolute(a), precision_absolute(b))
     /\ precision_relative(res) < Min(precision_relative(a), precision_relative(b))

\* leading digits cancelled and a non-zero difference is left
C8_Witness ==
  /\ Cancelling
  /\ ~IsZero(res)

\* C9: in the capped relative ring the product of non-zero a and b has
\* valuation val(a) + val(b), a unit part that p does not divide, and
\* relative precision min(r_a, r_b).
C9_ProductPrecision ==
  (session = "bounded" /\ op = "mul" /\ ring.kind = "capped-rel"
     /\ ~IsZero(a) /\ ~IsZero(b)) =>
        /\ valuation(res) = valuation(a) + valuation(b)
        /\ res.u % ring.p # 0
        /\ precision_relative(res) = Min(precision_relative(a), precision_relative(b))

\* capped-rel: a * b = 3*5^4 + 2*5^5 + 2*5^6 + O(5^14)
C9_Witness ==
  /\ session = "bounded" /\ op = "mul"
  /\ ring = [p |-> TutorialP, cap |-> TutorialPrec, kind |-> "capped-rel"]
  /\ a = [v |-> 3, u |-> 3, r |-> 10] /\ b = [v |-> 1, u |-> 21, r |-> 10]
  /\ res = [v |-> 4, u |-> 63, r |-> 10]

-----------------------------------------------------------------------------
(* What the tutorial prints for the lazy elements, lowest digit first.     *)

\* a@30 = ...?244200244200244200244200244201
TutorialA30 == <<1,0,2,4,4,2,0,0,2,4,4,2,0,0,2,4,4,2,0,0,2,4,4,2,0,0,2,4,4,2>>

\* a - b = ...42311334324023403400
TutorialAMinusB == <<0,0,4,3,0,4,3,2,0,4,2,3,4,3,3,1,1,3,2,4>>

\* the index of the first non-zero digit of ds, from index i on
RECURSIVE FirstNonZero(_, _)
FirstNonZero(ds, i) == IF ds[i + 1] # 0 THEN i ELSE FirstNonZero(ds, i + 1)

IsPrefix(s, t) == Len(s) <= Len(t) /\ SubSeq(t, 1, Len(s)) = s

\* the digits materialized for a are the digits the tutorial prints
TutorialDigitsReproduced ==
  (session = "lazy" /\ "a" \in DOMAIN memo) =>
     \/ IsPrefix(memo["a"], TutorialA30)
     \/ IsPrefix(TutorialA30, memo["a"])

\* the elements x and y differ at some index below n
DiffersBelow(x, y, n, K) ==
  IF "s" \in {x, y} THEN K >= 0 /\ K < n
  ELSE FirstNonZero(TutorialAMinusB, 0) < n

-----------------------------------------------------------------------------
(* The claims about the lazy ring.                                         *)

IsAnswer(r) == "op" \in DOMAIN r /\ r.op = "at_precision_absolute" /\ "digits" \in DOMAIN r

\* an earlier and the latest answer for the same element: the shorter one is
\* the beginning of the longer one, and each has the digits asked for
AnswersAgree(r1, r2) ==
  (IsAnswer(r1) /\ IsAnswer(r2) /\ r1.x = r2.x) =>
     /\ Len(r1.digits) = r1.n /\ Len(r2.digits) = r2.n
     /\ IsPrefix(r1.digits, r2.digits) \/ IsPrefix(r2.digits, r1.digits)

\* C1: every step extends each memo by appending (the frontier never goes
\* back, no materialized digit changes), calls the generator once per new
\* digit and never again for a digit it has, and returns answers that are
\* prefixes of one another: for m < n the first m digits of the answer at
\* precision n are the answer at precision m.
C1_PrefixStability ==
  [][/\ DOMAIN memo' = DOMAIN memo
     /\ \A x \in DOMAIN memo :
          /\ IsPrefix(memo[x], memo'[x])
          /\ calls'[x] - calls[x] = Len(memo'[x]) - Len(memo[x])
     /\ AnswersAgree(seen', last')
     /\ IsAnswer(last') => last'.digits = SubSeq(memo'[last'.x], 1, last'.n)]_vars

\* a and then a@30: 20 digits were returned, and later 30
C1_Witness ==
  /\ IsAnswer(seen) /\ IsAnswer(last)
  /\ seen.x = "a" /\ last.x = "a"
  /\ seen.n = DefaultPrec /\ last.n = TutorialReq
  /\ last.digits = TutorialA30

IsComparison(r) == "op" \in DOMAIN r /\ r.op = "compare"

\* C5 as stated: a difference below the precision gives NotEqual, and
\* without one the comparison never says Equal but raises PrecisionError
C5_Original ==
  IsComparison(last) =>
     IF DiffersBelow(last.x, last.y, last.n, kexp)
     THEN last.result = "NotEqual"
     ELSE last.result = PrecisionError

\* C5 amended: a difference below the precision gives NotEqual; without one,
\* a comparison at an explicit precision (x@n == y) returns Equal and only the
\* comparison without a precision (x == y, at the default precision) raises
\* PrecisionError.
C5_EqualityEscalation ==
  IsComparison(last) =>
     IF DiffersBelow(last.x, last.y, last.n, kexp)
     THEN last.result = "NotEqual"
     ELSE IF last.explicit THEN last.result = "Equal"
     ELSE last.n = DefaultPrec /\ last.result = PrecisionError

\* b == b + 5^50 raises PrecisionError
C5_Witness ==
  /\ IsComparison(last)
  /\ last.x = "b" /\ last.y = "s" /\ kexp = TutorialK
  /\ ~last.explicit
  /\ last.result = PrecisionError

-----------------------------------------------------------------------------
(* The claims about self-referent numbers.                                 *)

\* x = ...04222412141121000211, the solution of x = 1 + 5*x^2
TutorialX20 == <<1,1,2,0,0,0,1,2,1,1,4,1,2,1,4,2,2,2,4,0>>

\* the digits resolved for x = 1 + 5*x^2 are the digits the tutorial prints
TutorialSelfRefReproduced ==
  (session = "selfref" /\ state = "Bound" /\ ring.p = LazyP /\ coef = LazyP) =>
     IsPrefix(memo["x"], TutorialX20)

IsSet(r) == "op" \in DOMAIN r /\ r.op = "set"

IsCircular(r) == "error" \in DOMAIN r /\ r.error = CircularDefinition

\* C2: a node created by selfref() is Unbound; the first set binds it; a set
\* on a Bound node fails with AlreadyBound and changes neither the bound
\* definition nor the digits; a Bound node stays Bound.
C2_BoundOnce ==
  [][/\ (state = "Absent" /\ state' # "Absent") => state' = "Unbound"
     /\ (state = "Unbound" /\ state' # "Unbound") =>
           /\ state' = "Bound" /\ IsSet(last')
           /\ last'.result = "ok" /\ coef' = last'.c
     /\ state = "Bound" => (state' = "Bound" /\ coef' = coef)
     /\ (state = "Bound" /\ IsSet(last') /\ last' # last) =>
           /\ last'.result = AlreadyBound
           /\ memo' = memo]_vars

\* x, with digits materialized, was set again with another definition
C2_Witness ==
  /\ state = "Bound" /\ IsSet(last)
  /\ last.result = AlreadyBound /\ last.c # coef
  /\ Len(memo["x"]) > 0

Unguarded == session = "selfref" /\ state = "Bound" /\ coef % ring.p # 0

\* C3: for y = 1 + c*y^2 with c a unit the set succeeds; no digit is ever
\* returned, the resolver never spends more than its bound of iterations on
\* a digit, a request that ends without being abandoned ends with
\* CircularDefinition, and every request ends.
C3_Safe ==
  Unguarded =>
     /\ memo["x"] = <<>>
     /\ iters <= IterBound
     /\ ~IsAnswer(last)
     /\ (pc = "idle" /\ "op" \in DOMAIN last /\ last.op = "at_precision_absolute")
           => IsCircular(last)

C3_CircularTerminates ==
  /\ []C3_Safe
  /\ [][(Unguarded /\ pc = "resolving" /\ pc' = "idle" /\ last'.op # "abandoned")
           => IsCircular(last')]_vars
  /\ (Unguarded /\ pc = "resolving") ~> (pc = "idle")

\* y.set(1 + 3*y^2); y@20 raised
C3_Witness ==
  /\ Unguarded /\ ring.p = LazyP /\ coef = 3
  /\ pc = "idle" /\ IsCircular(last) /\ last.n = DefaultPrec

\* the sum of ds[j] * ds[k + 1 - j] for j from j to k
RECURSIVE SquareTerm(_, _, _)
SquareTerm(ds, k, j) ==
  IF j > k THEN 0 ELSE ds[j] * ds[k + 1 - j] + SquareTerm(ds, k, j + 1)

\* the coefficients of p^0 .. p^(n-1) in 1 + c*X^2, X the number with the n
\* digits ds
Coefficients(c, ds) ==
  [k \in 1..Len(ds) |-> c * SquareTerm(ds, k, 1) + (IF k = 1 THEN 1 ELSE 0)]

\* the base-p digits of the number with the coefficients cs, from place k on
RECURSIVE Expansion(_, _, _, _)
Expansion(p, cs, k, carry) ==
  IF k > Len(cs) THEN <<>>
  ELSE <<(cs[k] + carry) % p>> \o Expansion(p, cs, k + 1, (cs[k] + carry) \div p)

Guarded == session = "selfref" /\ state = "Bound" /\ coef = ring.p

\* C4: for x = 1 + p*x^2 the digit of index n is resolved from digits of
\* index < n only, no request raises CircularDefinition, every request that
\* is not abandoned returns its digits, and the n digits resolved satisfy
\* x = 1 + p*x^2 modulo p^n.
C4_GuardedConverges ==
  Guarded =>
     /\ Len(read) = Len(memo["x"])
     /\ \A n \in 1..Len(read) : read[n] < n - 1
     /\ ~IsCircular(last) /\ failed = Nothing /\ iters = 0
     /\ Expansion(ring.p, Coefficients(coef, memo["x"]), 1, 0) = memo["x"]

\* x.set(1 + 5*x^2); x printed with its 20 digits
C4_Witness ==
  /\ Guarded /\ ring.p = LazyP
  /\ IsAnswer(last) /\ last.n = DefaultPrec
  /\ last.digits = TutorialX20

====
